---- MODULE Spec2Model ----
(***************************************************************************)
(* State-machine model of src/mains.cpp: the Lexer, the token              *)
(* materialization loop of main, the Parser (parseProgram/parseStatement), *)
(* the ASTVisitor and the ASTSerializer.                                   *)
(*                                                                         *)
(* Strings of the program (std::string) are sequences of one-character     *)
(* strings.  C++ indices are 0-based: code[pos] is At(code, pos).          *)
(***************************************************************************)
EXTENDS Integers, Sequences, FiniteSets, TLC

\* ---------------------------------------------------------------- bounds
\* longest enumerated source text
MaxLen == 4
\* number of nextToken() calls made on one Lexer on its own
MaxCalls == 6
\* largest number of nodes of the trees handed to visit and serialize
MaxNodes == 5
\* number of most recent diagnostic lines kept of the error channel
MaxDiag == 3

\* ------------------------------------------------- character classes
Letters == {"a", "b", "f", "o"}
Digits == {"1", "2", "3"}
Spaces == {" "}

\* characters the enumerated source texts are drawn from: a letter, the
\* underscore, a digit, white space, the semicolon and another punctuation
Alphabet == {"a", "_", "1", " ", ";", "+"}

isalpha(c) == c \in Letters
isdigit(c) == c \in Digits
isspace(c) == c \in Spaces
isalnum(c) == isalpha(c) \/ isdigit(c)

At(s, i) == s[i + 1]

RECURSIVE SeqsUpTo(_)
SeqsUpTo(n) ==
  IF n = 0 THEN {<<>>}
  ELSE LET S == SeqsUpTo(n - 1) IN
       S \cup {Append(s, c) : s \in {t \in S : Len(t) = n - 1}, c \in Alphabet}

\* the scenario inputs of the specification: "foo;", "", "123;", "a b;"
ScenarioA == <<"f", "o", "o", ";">>
ScenarioB == <<>>
ScenarioC == <<"1", "2", "3", ";">>
ScenarioD == <<"a", " ", "b", ";">>

Sources == SeqsUpTo(MaxLen) \cup {ScenarioA, ScenarioB, ScenarioC, ScenarioD}

\* ------------------------------------------------------------- tokens
TokenType == {"IDENTIFIER", "KEYWORD", "OPERATOR", "LITERAL", "COMMENT",
              "WHITESPACE", "UNKNOWN"}

Token(t, v) == [type |-> t, value |-> v]

\* the end-of-input token {TokenType::UNKNOWN, ""}
Sentinel == Token("UNKNOWN", <<>>)

\* -------------------------------------------------------------- Lexer
RECURSIVE skipWhitespace(_, _)
skipWhitespace(c, p) ==
  IF p < Len(c) /\ isspace(At(c, p)) THEN skipWhitespace(c, p + 1) ELSE p

RECURSIVE lexIdentifierLoop(_, _, _)
lexIdentifierLoop(c, p, identifier) ==
  IF p < Len(c) /\ (isalnum(At(c, p)) \/ At(c, p) = "_")
  THEN lexIdentifierLoop(c, p + 1, Append(identifier, At(c, p)))
  ELSE [tok |-> Token("IDENTIFIER", identifier), pos |-> p]

\* lexIdentifier ending the run at the first character that is not a letter
RECURSIVE lexIdentifierLoop_Alpha(_, _, _)
lexIdentifierLoop_Alpha(c, p, identifier) ==
  IF p < Len(c) /\ (isalpha(At(c, p)) \/ At(c, p) = "_")
  THEN lexIdentifierLoop_Alpha(c, p + 1, Append(identifier, At(c, p)))
  ELSE [tok |-> Token("IDENTIFIER", identifier), pos |-> p]

lexIdentifier_Alpha(c, p) == lexIdentifierLoop_Alpha(c, p, <<>>)

lexIdentifier(c, p) == lexIdentifierLoop(c, p, <<>>)

RECURSIVE lexLiteralLoop(_, _, _)
lexLiteralLoop(c, p, literal) ==
  IF p < Len(c) /\ isdigit(At(c, p))
  THEN lexLiteralLoop(c, p + 1, Append(literal, At(c, p)))
  ELSE [tok |-> Token("LITERAL", literal), pos |-> p]

\* lexLiteral running on through letters
RECURSIVE lexLiteralLoop_Alnum(_, _, _)
lexLiteralLoop_Alnum(c, p, literal) ==
  IF p < Len(c) /\ isalnum(At(c, p))
  THEN lexLiteralLoop_Alnum(c, p + 1, Append(literal, At(c, p)))
  ELSE [tok |-> Token("LITERAL", literal), pos |-> p]

lexLiteral_Alnum(c, p) == lexLiteralLoop_Alnum(c, p, <<>>)

lexLiteral(c, p) == lexLiteralLoop(c, p, <<>>)

\* getNextToken without the call of skipWhitespace
getNextToken_NoSkip(c, p) ==
  IF p >= Len(c) THEN [tok |-> Sentinel, pos |-> p]
  ELSE LET currentChar == At(c, p) IN
       IF isalpha(currentChar) \/ currentChar = "_" THEN lexIdentifier(c, p)
       ELSE IF isdigit(currentChar) THEN lexLiteral(c, p)
       ELSE [tok |-> Token("UNKNOWN", <<currentChar>>), pos |-> p]

\* getNextToken rewinding the scan when it meets end-of-input
getNextToken_Rewind(c, p) ==
  LET q == skipWhitespace(c, p) IN
  IF q >= Len(c) THEN [tok |-> Sentinel, pos |-> 0]
  ELSE LET currentChar == At(c, q) IN
       IF isalpha(currentChar) \/ currentChar = "_" THEN lexIdentifier(c, q)
       ELSE IF isdigit(currentChar) THEN lexLiteral(c, q)
       ELSE [tok |-> Token("UNKNOWN", <<currentChar>>), pos |-> q]

\* getNextToken returning ';' as an OPERATOR token and scanning past it
getNextToken_Operator(c, p) ==
  LET q == skipWhitespace(c, p) IN
  IF q >= Len(c) THEN [tok |-> Sentinel, pos |-> q]
  ELSE LET currentChar == At(c, q) IN
       IF isalpha(currentChar) \/ currentChar = "_" THEN lexIdentifier(c, q)
       ELSE IF isdigit(currentChar) THEN lexLiteral(c, q)
       ELSE IF currentChar = ";"
            THEN [tok |-> Token("OPERATOR", <<currentChar>>), pos |-> q + 1]
       ELSE [tok |-> Token("UNKNOWN", <<currentChar>>), pos |-> q]

\* getNextToken: the returned token and the scan position it leaves
getNextToken(c, p) ==
  LET q == skipWhitespace(c, p) IN
  IF q >= Len(c) THEN [tok |-> Sentinel, pos |-> q]
  ELSE LET currentChar == At(c, q) IN
       IF isalpha(currentChar) \/ currentChar = "_" THEN lexIdentifier(c, q)
       ELSE IF isdigit(currentChar) THEN lexLiteral(c, q)
       ELSE [tok |-> Token("UNKNOWN", <<currentChar>>), pos |-> q]

\* the do-while loop going on for identifiers only
LexLoopCond_OnlyIdentifier(token) == token.type = "IDENTIFIER"

\* the condition of main's do-while loop
LexLoopCond(token) == token.type # "UNKNOWN"

\* ------------------------------------------------------------- ASTNode
ASTNode(t, v) == [type |-> t, value |-> v, children |-> <<>>]

\* no node allocated yet
NoNode == ASTNode("", <<>>)

\* ------------------------------------------------------------- Parser
ExpectedSemicolon == [msg |-> "Expected semicolon after identifier.", arg |-> <<>>]
UnexpectedToken(v) == [msg |-> "Unexpected token: ", arg |-> v]
FailedToOpen == [msg |-> "Failed to open input file.", arg |-> <<>>]

getCurrentToken(toks, idx) ==
  IF idx < Len(toks) THEN At(toks, idx) ELSE Token("UNKNOWN", <<>>)

\* consumeToken stepping back from the second token
consumeToken_Back(idx) == IF idx = 1 THEN 0 ELSE idx + 1

consumeToken(idx) == idx + 1

\* parseStatement leaving the semicolon unconsumed
parseStatement_KeepSemicolon(toks, idx) ==
  LET token == getCurrentToken(toks, idx) IN
  IF token.type = "IDENTIFIER"
  THEN LET statementNode == ASTNode("Statement", token.value)
           i1 == consumeToken(idx)
       IN IF getCurrentToken(toks, i1).value = <<";">>
          THEN [index |-> i1, node |-> <<statementNode>>, diag |-> <<>>]
          ELSE [index |-> i1, node |-> <<>>, diag |-> <<ExpectedSemicolon>>]
  ELSE [index |-> idx, node |-> <<>>, diag |-> <<UnexpectedToken(token.value)>>]

\* parseStatement consuming the identifier only once the semicolon is seen
parseStatement_Peek(toks, idx) ==
  LET token == getCurrentToken(toks, idx) IN
  IF token.type = "IDENTIFIER"
  THEN LET statementNode == ASTNode("Statement", token.value)
           i1 == consumeToken(idx)
       IN IF getCurrentToken(toks, i1).value = <<";">>
          THEN [index |-> consumeToken(i1), node |-> <<statementNode>>,
                diag |-> <<>>]
          ELSE [index |-> idx, node |-> <<>>, diag |-> <<ExpectedSemicolon>>]
  ELSE [index |-> idx, node |-> <<>>, diag |-> <<UnexpectedToken(token.value)>>]

\* parseStatement consuming the token it reports as unexpected
parseStatement_SkipOffending(toks, idx) ==
  LET token == getCurrentToken(toks, idx) IN
  IF token.type = "IDENTIFIER"
  THEN LET statementNode == ASTNode("Statement", token.value)
           i1 == consumeToken(idx)
       IN IF getCurrentToken(toks, i1).value = <<";">>
          THEN [index |-> consumeToken(i1), node |-> <<statementNode>>,
                diag |-> <<>>]
          ELSE [index |-> i1, node |-> <<>>, diag |-> <<ExpectedSemicolon>>]
  ELSE [index |-> consumeToken(idx), node |-> <<>>,
        diag |-> <<UnexpectedToken(token.value)>>]

\* parseStatement taking the node's value from the token after the identifier
parseStatement_WrongValue(toks, idx) ==
  LET token == getCurrentToken(toks, idx) IN
  IF token.type = "IDENTIFIER"
  THEN LET i1 == consumeToken(idx)
           statementNode == ASTNode("Statement", getCurrentToken(toks, i1).value)
       IN IF getCurrentToken(toks, i1).value = <<";">>
          THEN [index |-> consumeToken(i1), node |-> <<statementNode>>,
                diag |-> <<>>]
          ELSE [index |-> i1, node |-> <<>>, diag |-> <<ExpectedSemicolon>>]
  ELSE [index |-> idx, node |-> <<>>, diag |-> <<UnexpectedToken(token.value)>>]

\* parseStatement: the cursor it leaves, the node it returns (<<>> is
\* nullptr) and the diagnostic lines it writes
parseStatement(toks, idx) ==
  LET token == getCurrentToken(toks, idx) IN
  IF token.type = "IDENTIFIER"
  THEN LET statementNode == ASTNode("Statement", token.value)
           i1 == consumeToken(idx)
       IN IF getCurrentToken(toks, i1).value = <<";">>
          THEN [index |-> consumeToken(i1), node |-> <<statementNode>>,
                diag |-> <<>>]
          ELSE [index |-> i1, node |-> <<>>, diag |-> <<ExpectedSemicolon>>]
  ELSE [index |-> idx, node |-> <<>>, diag |-> <<UnexpectedToken(token.value)>>]

\* --------------------------------------------------------- ASTVisitor
RECURSIVE visit(_)
RECURSIVE visitChildren(_, _)
visitChildren(children, i) ==
  IF i > Len(children) THEN <<>>
  ELSE visit(children[i]) \o visitChildren(children, i + 1)

\* visit writing a node's record after the records of its children
visit_PostOrder(node) ==
  visitChildren(node.children, 1) \o <<[type |-> node.type, value |-> node.value]>>

visit(node) ==
  <<[type |-> node.type, value |-> node.value]>> \o visitChildren(node.children, 1)

\* ------------------------------------------------------ ASTSerializer
RECURSIVE serializeNode(_)
RECURSIVE serializeChildren(_, _)
\* the children loop writing the delimiter after every child
RECURSIVE serializeChildren_Trailing(_, _)
serializeChildren_Trailing(children, i) ==
  IF i >= Len(children) THEN <<>>
  ELSE serializeNode(At(children, i)) \o <<", ">>
       \o serializeChildren_Trailing(children, i + 1)

serializeChildren(children, i) ==
  IF i >= Len(children) THEN <<>>
  ELSE serializeNode(At(children, i))
       \o (IF i # Len(children) - 1 THEN <<", ">> ELSE <<>>)
       \o serializeChildren(children, i + 1)

serializeNode(node) ==
  <<"{ \"type\": \"", node.type, "\", \"value\": \"">> \o node.value
  \o <<"\", \"children\": [">> \o serializeChildren(node.children, 0) \o <<"] }">>

serialize(node) == serializeNode(node)

\* ------------------------------------------------------------- state
VARIABLES
  pc,             \* position of main
  code,           \* the content of input.c
  pos,            \* Lexer::pos
  tokens,         \* main's vector of tokens
  index,          \* Parser::index
  programNode,    \* the node parseProgram builds
  statementNode,  \* result of the last parseStatement call (<<>> nullptr)
  ast,            \* main's ast, set when parse returns
  cerr,           \* the last MaxDiag lines of the error channel
  cout,           \* standard output
  status          \* exit status of the process (-1 while running)

vars == <<pc, code, pos, tokens, index, programNode, statementNode, ast,
          cerr, cout, status>>

\* the error channel, kept to its last MaxDiag lines
Emit(log, lines) ==
  LET all == log \o lines IN
  IF Len(all) <= MaxDiag THEN all
  ELSE SubSeq(all, Len(all) - MaxDiag + 1, Len(all))

Init ==
  /\ pc = "main"
  /\ code \in Sources
  /\ pos = 0
  /\ tokens = <<>>
  /\ index = 0
  /\ programNode = NoNode
  /\ statementNode = <<>>
  /\ ast = NoNode
  /\ cerr = <<>>
  /\ cout = <<>>
  /\ status = -1

\* input.c cannot be opened
OpenFail ==
  /\ pc = "main"
  /\ cerr' = Emit(cerr, <<FailedToOpen>>)
  /\ status' = 1
  /\ pc' = "exit"
  /\ UNCHANGED <<code, pos, tokens, index, programNode, statementNode, ast, cout>>

\* input.c is read; the Lexer and the token vector are constructed
ReadSource ==
  /\ pc = "main"
  /\ pos' = 0
  /\ tokens' = <<>>
  /\ pc' = "lex"
  /\ UNCHANGED <<code, index, programNode, statementNode, ast, cerr, cout, status>>

\* one iteration of the do-while loop of main
LexStep ==
  /\ pc = "lex"
  /\ LET r == getNextToken(code, pos) IN
       /\ pos' = r.pos
       /\ tokens' = Append(tokens, r.tok)
       /\ pc' = IF LexLoopCond(r.tok) THEN "lex" ELSE "parser"
  /\ UNCHANGED <<code, index, programNode, statementNode, ast, cerr, cout, status>>

\* Parser parser(tokens); parse() enters parseProgram and makes the root
ParseBegin ==
  /\ pc = "parser"
  /\ index' = 0
  /\ programNode' = ASTNode("Program", <<>>)
  /\ pc' = "parse"
  /\ UNCHANGED <<code, pos, tokens, statementNode, ast, cerr, cout, status>>

\* the test of the while loop of parseProgram succeeds
ParseTest ==
  /\ pc = "parse"
  /\ index < Len(tokens)
  /\ pc' = "stmt"
  /\ UNCHANGED <<code, pos, tokens, index, programNode, statementNode, ast, cerr, cout, status>>

\* the body of the while loop of parseProgram: one Statement attempt
ParseStep ==
  /\ pc = "stmt"
  /\ LET r == parseStatement(tokens, index) IN
       /\ index' = r.index
       /\ statementNode' = r.node
       /\ cerr' = Emit(cerr, r.diag)
       /\ programNode' = IF r.node # <<>>
                         THEN [programNode EXCEPT !.children = @ \o r.node]
                         ELSE programNode
  /\ pc' = "parse"
  /\ UNCHANGED <<code, pos, tokens, ast, cout, status>>

\* the while loop of parseProgram ends; parse() returns the root
ParseReturn ==
  /\ pc = "parse"
  /\ ~(index < Len(tokens))
  /\ ast' = programNode
  /\ pc' = "visit"
  /\ UNCHANGED <<code, pos, tokens, index, programNode, statementNode, cerr, cout, status>>

\* the traversal dropping the children of the node it has visited
Visit_Trim ==
  /\ pc = "visit"
  /\ cout' = cout \o visit(ast)
  /\ ast' = [ast EXCEPT !.children = <<>>]
  /\ pc' = "serialize"
  /\ UNCHANGED <<code, pos, tokens, index, programNode, statementNode, cerr, status>>

\* visitor.visit(ast)
Visit ==
  /\ pc = "visit"
  /\ cout' = cout \o visit(ast)
  /\ pc' = "serialize"
  /\ UNCHANGED <<code, pos, tokens, index, programNode, statementNode, ast, cerr, status>>

\* main returning 1 when a diagnostic was written
Serialize_FailOnDiagnostic ==
  /\ pc = "serialize"
  /\ cout' = Append(cout, [serialized |-> serialize(ast)])
  /\ status' = IF cerr = <<>> THEN 0 ELSE 1
  /\ pc' = "exit"
  /\ UNCHANGED <<code, pos, tokens, index, programNode, statementNode, ast, cerr>>

\* serializer.serialize(ast), printed; return 0
Serialize ==
  /\ pc = "serialize"
  /\ cout' = Append(cout, [serialized |-> serialize(ast)])
  /\ status' = 0
  /\ pc' = "exit"
  /\ UNCHANGED <<code, pos, tokens, index, programNode, statementNode, ast, cerr>>

Next ==
  \/ OpenFail
  \/ ReadSource
  \/ LexStep
  \/ ParseBegin
  \/ ParseTest
  \/ ParseStep
  \/ ParseReturn
  \/ Visit
  \/ Serialize

Spec == Init /\ [][Next]_vars

\* main is one sequential thread: whenever it has a step to take, it takes it
FairSpec == Spec /\ WF_vars(Next)

\* ------------------------------------------------- the Lexer on its own
\* a Lexer constructed on a source text and called MaxCalls times, the
\* returned tokens collected in tokens
LexerInit ==
  /\ pc = "calls"
  /\ code \in Sources
  /\ pos = 0
  /\ tokens = <<>>
  /\ index = 0
  /\ programNode = NoNode
  /\ statementNode = <<>>
  /\ ast = NoNode
  /\ cerr = <<>>
  /\ cout = <<>>
  /\ status = -1

\* one call of getNextToken
NextTokenCall ==
  /\ pc = "calls"
  /\ Len(tokens) < MaxCalls
  /\ LET r == getNextToken(code, pos) IN
       /\ pos' = r.pos
       /\ tokens' = Append(tokens, r.tok)
  /\ UNCHANGED <<pc, code, index, programNode, statementNode, ast, cerr, cout, status>>

LexerNext == NextTokenCall

LexerSpec == LexerInit /\ [][LexerNext]_vars

\* ------------------------------- the visitor and the serializer on a tree
\* the (type, value) pairs of the nodes of the trees
Labels == {<<"Program", <<>>>>, <<"Statement", <<"a">>>>}

RECURSIVE TreesOfSize(_)
RECURSIVE ForestsOfSize(_)
\* the sequences of trees with m nodes in all
ForestsOfSize(m) ==
  IF m = 0 THEN {<<>>}
  ELSE UNION {{<<t>> \o f : t \in TreesOfSize(k), f \in ForestsOfSize(m - k)} :
              k \in 1..m}

\* the trees with n nodes
TreesOfSize(n) ==
  {[type |-> l[1], value |-> l[2], children |-> f] :
     l \in Labels, f \in ForestsOfSize(n - 1)}

Trees == UNION {TreesOfSize(n) : n \in 1..MaxNodes}

\* a tree handed to the visitor and then to the serializer
TreeInit ==
  /\ pc = "tree"
  /\ ast \in Trees
  /\ code = <<>>
  /\ pos = 0
  /\ tokens = <<>>
  /\ index = 0
  /\ programNode = NoNode
  /\ statementNode = <<>>
  /\ cerr = <<>>
  /\ cout = <<>>
  /\ status = -1

\* visitor.visit(ast)
TreeVisit ==
  /\ pc = "tree"
  /\ cout' = cout \o visit(ast)
  /\ pc' = "tree_visited"
  /\ UNCHANGED <<code, pos, tokens, index, programNode, statementNode, ast, cerr, status>>

\* serializer.serialize(ast), printed
TreeSerialize ==
  /\ pc = "tree_visited"
  /\ cout' = Append(cout, [serialized |-> serialize(ast)])
  /\ pc' = "tree_serialized"
  /\ UNCHANGED <<code, pos, tokens, index, programNode, statementNode, ast, cerr, status>>

TreeNext ==
  \/ TreeVisit
  \/ TreeSerialize

TreeSpec == TreeInit /\ [][TreeNext]_vars

\* ------------------------------------------------------ shared notions
\* the token stream has been materialized (the do-while loop has ended)
Materialized ==
  \/ pc \in {"parser", "parse", "stmt", "visit", "serialize"}
  \/ pc = "exit" /\ status = 0

\* parse() has returned
Parsed ==
  \/ pc \in {"visit", "serialize"}
  \/ pc = "exit" /\ status = 0

\* a character the tokenizer classifies as neither white space, nor the
\* start or continuation of an identifier or literal
Irregular(c) == ~(isalnum(c) \/ c = "_" \/ isspace(c))

\* 0-based position of the first irregular character, Len(c) if none
FirstIrregular(c) ==
  IF \E i \in 1..Len(c) : Irregular(c[i])
  THEN (CHOOSE i \in 1..Len(c) :
          Irregular(c[i]) /\ \A j \in 1..(i - 1) : ~Irregular(c[j])) - 1
  ELSE Len(c)

RECURSIVE StripSpaces(_)
StripSpaces(c) ==
  IF c = <<>> THEN <<>>
  ELSE (IF isspace(Head(c)) THEN <<>> ELSE <<Head(c)>>) \o StripSpaces(Tail(c))

RECURSIVE Texts(_)
Texts(toks) ==
  IF toks = <<>> THEN <<>> ELSE Head(toks).value \o Texts(Tail(toks))

Front(q) == SubSeq(q, 1, Len(q) - 1)
Last(q) == q[Len(q)]

\* ------------------------------------------------------------------ C1
\* C1: for every source text the Program loop of parse() eventually ends,
\* with the cursor at the end of the token sequence, and the Program tree
\* is returned.
C1_ParseTerminates ==
  (pc = "parse") ~> (pc = "visit" /\ index >= Len(tokens) /\ ast.type = "Program")

\* ------------------------------------------------------------------ C2
\* C2: every nextToken() call made while the scan position is before
\* end-of-input strictly increases the scan position.
C2_LexProgress ==
  [][(pc = "lex" /\ pos < Len(code)) => pos' > pos]_vars

\* ------------------------------------------------------------------ C3
\* C3 as stated: for every source text the materialized stream ends with
\* the sentinel (UNKNOWN, empty text), which appears nowhere else in it.
C3_SentinelTerminated ==
  Materialized =>
    /\ Len(tokens) >= 1
    /\ Last(tokens) = Sentinel
    /\ \A i \in 1..(Len(tokens) - 1) : tokens[i] # Sentinel

\* C3 amended: for every source text without irregular characters the
\* materialized stream ends with the sentinel, which appears nowhere else
\* in it; for every source text with an irregular character the stream
\* holds no sentinel at all.
C3_SentinelWhenExhausted ==
  Materialized =>
    IF FirstIrregular(code) = Len(code)
    THEN /\ Len(tokens) >= 1
         /\ Last(tokens) = Sentinel
         /\ \A i \in 1..(Len(tokens) - 1) : tokens[i] # Sentinel
    ELSE \A i \in 1..Len(tokens) : tokens[i] # Sentinel

C3_Witness ==
  /\ Materialized
  /\ FirstIrregular(code) = Len(code)
  /\ Len(tokens) >= 3
  /\ Last(tokens) = Sentinel

\* ------------------------------------------------------------------ C4
\* C4: the materialized stream is exactly the tokens up to and including
\* the first UNKNOWN token: its last element is its only UNKNOWN token,
\* that token is the first irregular character of the source (the sentinel
\* if there is none), the tokens before it spell the source before that
\* character, and the scan never goes past that character.
C4_StopsAtFirstUnknown ==
  Materialized =>
    LET n == Len(tokens)
        k == FirstIrregular(code)
    IN /\ n >= 1
       /\ tokens[n].type = "UNKNOWN"
       /\ \A i \in 1..(n - 1) : tokens[i].type \in {"IDENTIFIER", "LITERAL"}
       /\ tokens[n].value = IF k < Len(code) THEN <<At(code, k)>> ELSE <<>>
       /\ Texts(Front(tokens)) = StripSpaces(SubSeq(code, 1, k))
       /\ pos <= k + 1

C4_Witness ==
  /\ Materialized
  /\ FirstIrregular(code) + 1 < Len(code)
  /\ Len(tokens) >= 2
  /\ Last(tokens).value # <<>>

\* ------------------------------------------------------------------ C5
\* C5: for the empty source text the token stream is just the sentinel and
\* the pipeline yields a Program node with zero children.
C5_EmptySource ==
  (pc = "lex" /\ code = ScenarioB)
    ~> (Parsed /\ tokens = <<Sentinel>> /\ ast = ASTNode("Program", <<>>))

\* ------------------------------------------------------------------ C6
\* C6: for a source whose first token is a Literal, the Statement parse
\* reports "Unexpected token: " with the literal's text, and the parse ends
\* with a Program that has zero children.
C6_LiteralFirst ==
  (pc = "parser" /\ tokens[1].type = "LITERAL")
    ~> (/\ Parsed
        /\ \E i \in 1..Len(cerr) : cerr[i] = UnexpectedToken(tokens[1].value)
        /\ ast = ASTNode("Program", <<>>))

\* ------------------------------------------------------------------ C7
\* a source that is one identifier immediately followed by ';'
IdentifierSemicolon(c) ==
  /\ Len(c) >= 2
  /\ Last(c) = ";"
  /\ isalpha(c[1]) \/ c[1] = "_"
  /\ \A i \in 1..(Len(c) - 1) : isalnum(c[i]) \/ c[i] = "_"

\* C7: for a source that is one identifier x immediately followed by ';'
\* the token sequence is [IDENTIFIER x, UNKNOWN ";"] and parse succeeds,
\* returning a Program with exactly one Statement child of value x.
C7_IdentifierSemicolon ==
  (pc = "lex" /\ IdentifierSemicolon(code))
    ~> (/\ Parsed
        /\ tokens = <<Token("IDENTIFIER", Front(code)), Token("UNKNOWN", <<";">>)>>
        /\ ast = [type |-> "Program", value |-> <<>>,
                  children |-> <<ASTNode("Statement", Front(code))>>]
        /\ cerr = <<>>)

C7_Witness ==
  /\ pc = "visit"
  /\ code = ScenarioA
  /\ tokens = <<Token("IDENTIFIER", <<"f", "o", "o">>), Token("UNKNOWN", <<";">>)>>
  /\ Len(ast.children) = 1
  /\ ast.children[1].value = <<"f", "o", "o">>

\* ------------------------------------------------------------------ C8
\* C8: for the source "a b;" the Statement attempt on "a" fails with the
\* missing-separator diagnostic (the next token is IDENTIFIER "b"), the
\* cursor moves on and the parse terminates.
C8_ScenarioD ==
  (pc = "lex" /\ code = ScenarioD)
    ~> (/\ Parsed
        /\ tokens[2] = Token("IDENTIFIER", <<"b">>)
        /\ cerr = <<ExpectedSemicolon>>
        /\ index = Len(tokens))

C8_Witness ==
  /\ code = ScenarioD
  /\ pc = "parse"
  /\ index = 1
  /\ statementNode = <<>>
  /\ cerr = <<ExpectedSemicolon>>

\* ------------------------------------------------------------------ C9
\* C9: one Statement attempt moves the cursor by exactly two on success,
\* by exactly one on a missing-separator failure and not at all on an
\* unexpected-token failure; on either failure no node is appended to the
\* Program.
C9_CursorEffect ==
  [][pc = "stmt" =>
       IF statementNode' # <<>>
       THEN /\ index' = index + 2
            /\ programNode'.children = programNode.children \o statementNode'
            /\ cerr' = cerr
       ELSE /\ programNode' = programNode
            /\ cerr' # <<>>
            /\ \/ /\ Last(cerr') = ExpectedSemicolon
                  /\ index' = index + 1
                  /\ At(tokens, index).type = "IDENTIFIER"
               \/ /\ Last(cerr') = UnexpectedToken(At(tokens, index).value)
                  /\ index' = index
                  /\ At(tokens, index).type # "IDENTIFIER"]_vars

C9_Witness ==
  /\ pc = "parse"
  /\ Len(cerr) = 2
  /\ cerr[1] = ExpectedSemicolon
  /\ cerr[2].msg = "Unexpected token: "
  /\ index = 1
  /\ programNode.children = <<>>

\* ----------------------------------------------------------------- C10
\* C10: the parser cursor is 0 when the Parser is constructed and no step
\* of the parse ever moves it backwards.
C10_CursorMonotone ==
  [][/\ pc = "parser" => index' = 0
     /\ index' >= index]_vars

C10_Witness ==
  /\ pc = "parse"
  /\ index >= 3
  /\ cerr # <<>>
  /\ statementNode # <<>>

\* ----------------------------------------------------------------- C11
\* C11: over any sequence of nextToken() calls the scan position never
\* decreases, and a call made once end-of-input has been reached returns
\* the sentinel and leaves the position unchanged.
C11_ScanMonotone ==
  [][pc = "calls" =>
       /\ pos' >= pos
       /\ pos >= Len(code) => (Last(tokens') = Sentinel /\ pos' = pos)]_vars

C11_Witness ==
  /\ pc = "calls"
  /\ Len(code) >= 2
  /\ pos = Len(code)
  /\ Len(tokens) >= 3
  /\ Last(tokens) = Sentinel
  /\ Last(Front(tokens)) = Sentinel

\* ----------------------------------------------------------------- C12
\* position of the first character at or after p that is not white space
AfterSpaces(c, p) ==
  CHOOSE q \in p..Len(c) :
    /\ q = Len(c) \/ ~isspace(At(c, q))
    /\ \A j \in p..(q - 1) : isspace(At(c, j))

\* end of the maximal run of letters, digits and underscores starting at q
IdentifierRunEnd(c, q) ==
  CHOOSE e \in q..Len(c) :
    /\ e = Len(c) \/ ~(isalnum(At(c, e)) \/ At(c, e) = "_")
    /\ \A j \in q..(e - 1) : isalnum(At(c, j)) \/ At(c, j) = "_"

\* C12: a nextToken() call whose post-whitespace character is a letter or
\* an underscore returns one IDENTIFIER token whose text is the whole
\* maximal run of letters, digits and underscores starting there, and
\* leaves the scan position right after that run.
C12_IdentifierRun ==
  [][pc = "calls" =>
       LET q == AfterSpaces(code, pos) IN
       (q < Len(code) /\ (isalpha(At(code, q)) \/ At(code, q) = "_")) =>
         LET e == IdentifierRunEnd(code, q) IN
         /\ tokens' = Append(tokens, Token("IDENTIFIER", SubSeq(code, q + 1, e)))
         /\ pos' = e]_vars

C12_Witness ==
  /\ pc = "calls"
  /\ Len(tokens) = 1
  /\ tokens[1].type = "IDENTIFIER"
  /\ Len(tokens[1].value) >= 3
  /\ \E i \in 1..Len(tokens[1].value) : isdigit(tokens[1].value[i])
  /\ pos < Len(code)

\* ----------------------------------------------------------------- C13
\* end of the maximal run of digits starting at q
DigitRunEnd(c, q) ==
  CHOOSE e \in q..Len(c) :
    /\ e = Len(c) \/ ~isdigit(At(c, e))
    /\ \A j \in q..(e - 1) : isdigit(At(c, j))

\* C13: a nextToken() call whose post-whitespace character is a digit
\* returns one LITERAL token whose text is the whole maximal run of digits
\* starting there, and leaves the scan position right after that run, so
\* that a following letter starts the next token, an IDENTIFIER.
C13_DigitRun ==
  [][pc = "calls" =>
       LET q == AfterSpaces(code, pos) IN
       /\ (q < Len(code) /\ isdigit(At(code, q))) =>
            LET e == DigitRunEnd(code, q) IN
            /\ tokens' = Append(tokens, Token("LITERAL", SubSeq(code, q + 1, e)))
            /\ pos' = e
       /\ (tokens # <<>> /\ Last(tokens).type = "LITERAL"
           /\ pos < Len(code) /\ isalpha(At(code, pos))) =>
            Last(tokens').type = "IDENTIFIER"]_vars

C13_Witness ==
  /\ pc = "calls"
  /\ Len(tokens) = 2
  /\ tokens[1].type = "LITERAL"
  /\ Len(tokens[1].value) >= 2
  /\ tokens[2].type = "IDENTIFIER"

\* ----------------------------------------------------------------- C14
\* parseProgram has made its root node
InParser == pc \in {"parse", "stmt"} \/ Parsed

C15_PipelineOrder ==
  [][/\ tokens' # tokens => pc = "lex"
     /\ (index' # index \/ programNode' # programNode
         \/ statementNode' # statementNode) =>
          /\ Materialized /\ ~Parsed
          /\ Last(tokens).type = "UNKNOWN"
     /\ ast' # ast => (pc = "parse" /\ ~(index < Len(tokens)) /\ ast' = programNode)
     /\ cout' # cout => (Parsed /\ ast = programNode)
     /\ Parsed => (ast' = ast /\ programNode' = programNode)]_vars

C15_Witness ==
  /\ pc = "exit"
  /\ status = 0
  /\ Len(ast.children) = 1
  /\ Len(cout) = 3
  /\ Len(tokens) >= 2

\* ----------------------------------------------------------------- C16
\* C16: the process ends with status 1 only when input.c cannot be opened,
\* and then nothing was tokenized, parsed, traversed or serialized; when
\* the pipeline has run to its end the status is 0, whatever diagnostics
\* were written.
C16_ExitStatus ==
  /\ status \in {-1, 0, 1}
  /\ status # -1 <=> pc = "exit"
  /\ status = 1 =>
       /\ tokens = <<>> /\ pos = 0
       /\ programNode = NoNode /\ ast = NoNode
       /\ cout = <<>>
       /\ cerr = <<FailedToOpen>>
  /\ (pc = "exit" /\ cout # <<>>) => status = 0

C16_Witness ==
  /\ pc = "exit"
  /\ status = 0
  /\ cerr # <<>>
  /\ cout # <<>>

\* ----------------------------------------------------------------- C17
\* the nodes of a tree, each named by the path of child numbers leading
\* to it from the root
RECURSIVE Paths(_)
Paths(node) ==
  {<<>>} \cup UNION {{<<i>> \o p : p \in Paths(node.children[i])} :
                     i \in 1..Len(node.children)}

RECURSIVE NodeAt(_, _)
NodeAt(node, p) ==
  IF p = <<>> THEN node ELSE NodeAt(node.children[Head(p)], Tail(p))

\* p is an ancestor of q, or p branches off to the left of q
Precedes(p, q) ==
  \/ Len(p) < Len(q) /\ SubSeq(q, 1, Len(p)) = p
  \/ \E i \in 1..Len(p) :
       /\ i <= Len(q)
       /\ SubSeq(p, 1, i - 1) = SubSeq(q, 1, i - 1)
       /\ p[i] < q[i]

\* C17: visit writes exactly one record per node of the tree, the record
\* of a node (its type and value) before those of its children, and the
\* children in their stored left-to-right order.
C17_PreOrder ==
  pc = "tree_visited" =>
    LET P == Paths(ast) IN
    /\ Len(cout) = Cardinality(P)
    /\ \A p \in P :
         LET k == Cardinality({q \in P : Precedes(q, p)}) + 1
             n == NodeAt(ast, p)
         IN cout[k] = [type |-> n.type, value |-> n.value]

C17_Witness ==
  /\ pc = "tree_visited"
  /\ Len(ast.children) = 2
  /\ Len(ast.children[1].children) = 1
  /\ ast.children[1].type # ast.children[1].children[1].type
  /\ ast.children[2].type # ast.children[1].children[1].type
  /\ Len(cout) = 4

\* ----------------------------------------------------------------- C18
RECURSIVE Record(_)
RECURSIVE RecordsAfterFirst(_)
\* the records of the children after the first, each led by the delimiter
RecordsAfterFirst(children) ==
  IF children = <<>> THEN <<>>
  ELSE <<", ">> \o Record(Head(children)) \o RecordsAfterFirst(Tail(children))

\* the record of a node: type, value and children, in that order
Record(node) ==
  <<"{ \"type\": \"", node.type, "\", \"value\": \"">> \o node.value
  \o <<"\", \"children\": [">>
  \o (IF node.children = <<>> THEN <<>>
      ELSE Record(Head(node.children)) \o RecordsAfterFirst(Tail(node.children)))
  \o <<"] }">>

Count(q, x) == Cardinality({i \in 1..Len(q) : q[i] = x})

\* C18: serialize writes for every node one record with the fields type,
\* value and children in that order, children being the records of the
\* children in stored order, with a delimiter between consecutive children
\* and none after the last one.
C18_Serialized ==
  pc = "tree_serialized" =>
    LET out == Last(cout).serialized
        P == Paths(ast)
    IN /\ out = Record(ast)
       /\ Count(out, "{ \"type\": \"") = Cardinality(P)
       /\ Count(out, "] }") = Cardinality(P)
       /\ Count(out, ", ") =
            Cardinality(P) - 1
            - Cardinality({p \in P : NodeAt(ast, p).children # <<>>})
       /\ \A i \in 1..Len(out) :
            out[i] = ", " => (out[i - 1] = "] }" /\ out[i + 1] = "{ \"type\": \"")

C18_Witness ==
  /\ pc = "tree_serialized"
  /\ Len(ast.children) = 3
  /\ Len(ast.children[2].children) = 1
  /\ Count(Last(cout).serialized, ", ") = 2

\* ----------------------------------------------------------------- C19
\* a stream of two or more tokens, all IDENTIFIER but the last, whose text
\* is ";"
IdentifiersThenSemicolon(toks) ==
  /\ Len(toks) >= 2
  /\ \A i \in 1..(Len(toks) - 1) : toks[i].type = "IDENTIFIER"
  /\ Last(toks).value = <<";">>

\* 0-based position of the first token that is not an IDENTIFIER, Len(toks)
\* if there is none
FirstNonIdentifier(toks) ==
  IF \E i \in 1..Len(toks) : toks[i].type # "IDENTIFIER"
  THEN (CHOOSE i \in 1..Len(toks) :
          /\ toks[i].type # "IDENTIFIER"
          /\ \A j \in 1..(i - 1) : toks[j].type = "IDENTIFIER") - 1
  ELSE Len(toks)

\* C19: the parse of a materialized stream returns if the stream is two or
\* more tokens, all IDENTIFIER but the last, whose text is ";"; for every
\* other stream the Program loop never returns and the cursor comes to
\* rest, for ever, below the length of the stream (on the first token that
\* is not an IDENTIFIER).
C19_TerminatesIff ==
  /\ (pc = "parser" /\ IdentifiersThenSemicolon(tokens)) ~> Parsed
  /\ (pc = "parser" /\ ~IdentifiersThenSemicolon(tokens))
       ~> [](~Parsed /\ index = FirstNonIdentifier(tokens) /\ index < Len(tokens))

C19_Witness ==
  /\ pc = "stmt"
  /\ ~IdentifiersThenSemicolon(tokens)
  /\ Len(tokens) >= 3
  /\ index = Len(tokens) - 1
  /\ Len(cerr) = MaxDiag
  /\ Last(cerr) = UnexpectedToken(Last(tokens).value)

\* ----------------------------------------------------------------- C20
\* C20: the Program node never has more than one Statement child; when it
\* has one, the stream's last token has the text ";", the child's value is
\* the text of the IDENTIFIER token right before it, and every diagnostic
\* written is the missing-separator one, one for each earlier token, all
\* of them identifiers.
C20_AtMostOneChild ==
  LET n == Len(tokens) IN
  /\ Len(programNode.children) <= 1
  /\ Len(ast.children) <= 1
  /\ Len(programNode.children) = 1 =>
       /\ n >= 2
       /\ tokens[n].value = <<";">>
       /\ tokens[n - 1] = Token("IDENTIFIER", programNode.children[1].value)
       /\ index = n
       /\ \A i \in 1..(n - 2) : tokens[i].type = "IDENTIFIER"
       /\ Len(cerr) = (IF n - 2 <= MaxDiag THEN n - 2 ELSE MaxDiag)
       /\ \A i \in 1..Len(cerr) : cerr[i] = ExpectedSemicolon

C20_Witness ==
  /\ pc = "parse"
  /\ Len(programNode.children) = 1
  /\ Len(tokens) = 3
  /\ cerr = <<ExpectedSemicolon>>
  /\ tokens[1].value # tokens[2].value

====
